---- MODULE Spec2Model ----
(***************************************************************************)
(* A model of fgfw-lite/encrypt.py: the Encryptor (stream) and AEncryptor  *)
(* (authenticated) sessions, the key derivations they use, and the         *)
(* process-wide IV replay cache USED_IV.                                   *)
(*                                                                         *)
(* Bytes are numbers modulo ByteMod.  Hash and HMAC outputs are modelled   *)
(* as the terms they are computed from (collision-free hashing), a cipher  *)
(* as a keystream fixed by (algorithm, key, iv, position).                 *)
(***************************************************************************)
EXTENDS Integers, Sequences, FiniteSets, TLC

\* ---- bounds of the model ------------------------------------------------
MaxCalls == 6    \* constructor, encrypt and decrypt calls in one run
maxlen == 2      \* capacity of one sized_deque (1048576 in the source)

\* the slots of the session objects
Sess == 1..MaxCalls

\* byte values, and the modulus of byte arithmetic (256 in the source)
Byte == 0..2
ByteMod == Cardinality(Byte)

\* ---- sequences of bytes ------------------------------------------------
RECURSIVE SeqSum(_)
SeqSum(s) == IF s = <<>> THEN 0 ELSE Head(s) + SeqSum(Tail(s))

\* s[:n]
Take(s, n) == SubSeq(s, 1, IF n < Len(s) THEN n ELSE Len(s))

\* s[n:]
Drop(s, n) == SubSeq(s, n + 1, Len(s))

\* the plaintext chunks handed to encrypt
Chunks == {<<1>>}

\* buf with the byte at position i changed to the next byte value
Mutate(buf, i) == [buf EXCEPT ![i] = (buf[i] + 1) % ByteMod]

\* ---- the method registry ----------------------------------------------
method_supported ==
    [m \in {"aes-128-cfb", "aes-192-cfb", "aes-256-cfb",
            "aes-128-ofb", "aes-192-ofb", "aes-256-ofb",
            "rc4-md5", "salsa20", "chacha20"} |->
        CASE m \in {"aes-128-cfb", "aes-128-ofb", "rc4-md5"} -> <<16, 16>>
          [] m \in {"aes-192-cfb", "aes-192-ofb"} -> <<24, 16>>
          [] m \in {"aes-256-cfb", "aes-256-ofb"} -> <<32, 16>>
          [] m \in {"salsa20", "chacha20"} -> <<32, 8>>]

\* the method names handed to the constructors
MethodNames ==
    {"salsa20", "rc4-md5", "aes-256-cfb", "SALSA20", "does-not-exist", "table"}

\* str.lower() on the names above
lower(m) == IF m = "SALSA20" THEN "salsa20" ELSE m

\* None
None == <<>>

get_cipher_len(method) ==
    IF lower(method) \in DOMAIN method_supported
    THEN method_supported[lower(method)]
    ELSE None

\* ---- keys --------------------------------------------------------------
\* A key is the term it was derived as.  kdf "evp": the first len bytes of
\* the chained MD5 blocks of secret (blocks of them were computed); kdf
\* "hkdf": the first len bytes of HMAC(HMAC(salt, secret), ctx + label).
NoKey == [kdf |-> "", label |-> "", secret |-> 0, salt |-> 0, ctx |-> 0,
          blocks |-> 0, len |-> 0]

RECURSIVE EVP_Blocks(_, _)
\* the number of MD5 blocks the while loop appends, starting from l
EVP_Blocks(l, key_len) ==
    IF l < key_len THEN 1 + EVP_Blocks(l + 16, key_len) ELSE 0

EVP_BytesToKey(password, key_len) ==
    [kdf |-> "evp", label |-> "", secret |-> password, salt |-> 0, ctx |-> 0,
     blocks |-> EVP_Blocks(0, key_len), len |-> key_len]

HkdfOut(key, salt, ctx, label, n) ==
    [kdf |-> "hkdf", label |-> label, secret |-> key, salt |-> salt,
     ctx |-> ctx, blocks |-> 0, len |-> n]

\* <<sek, sak, cek, cak>>; a SHA-256 digest has 32 bytes
hkdf(key, salt, ctx, key_len) ==
    << HkdfOut(key, salt, ctx, "server_encrypt_key", key_len),
       HkdfOut(key, salt, ctx, "server_authenticate_key", 32),
       HkdfOut(key, salt, ctx, "client_encrypt_key", key_len),
       HkdfOut(key, salt, ctx, "client_authenticate_key", 32) >>

key_len_to_hash(key_len) ==
    CASE key_len = 16 -> "md5"
      [] key_len = 24 -> "sha1"
      [] key_len = 32 -> "sha256"

\* ---- ciphers -----------------------------------------------------------
\* A cipher handle: the algorithm, the key, the iv, the direction (1
\* encrypts, 0 decrypts) and the number of bytes processed so far.  mix is
\* the iv hashed into the key by rc4-md5.
NoCipher == [alg |-> "", key |-> NoKey, mix |-> <<>>, iv |-> <<>>, op |-> 0,
             pos |-> 0]

Cipher(alg, key, mix, iv, op) ==
    [alg |-> alg, key |-> key, mix |-> mix, iv |-> iv, op |-> op, pos |-> 0]

create_rc4_md5(method, key, iv, op) == Cipher("rc4", key, iv, <<>>, op)

\* method.replace('-', '_') on the registry's names
replace_dash(method) ==
    CASE method = "aes-128-cfb" -> "aes_128_cfb"
      [] method = "aes-192-cfb" -> "aes_192_cfb"
      [] method = "aes-256-cfb" -> "aes_256_cfb"
      [] method = "aes-128-ofb" -> "aes_128_ofb"
      [] method = "aes-192-ofb" -> "aes_192_ofb"
      [] method = "aes-256-ofb" -> "aes_256_ofb"
      [] OTHER -> method

get_cipher(key, method, op, iv) ==
    IF method = "rc4-md5" THEN create_rc4_md5(method, key, iv, op)
    ELSE IF method \in {"salsa20", "chacha20"}
         THEN Cipher(method, key, <<>>, iv, op)
         ELSE Cipher(replace_dash(method), key, <<>>, iv, op)

\* the algorithms the cipher backend knows; creating a cipher of another
\* name raises in the backend
KnownAlg(alg) ==
    alg \in {"rc4", "salsa20", "chacha20", "aes_128_cfb", "aes_192_cfb",
             "aes_256_cfb", "aes_128_ofb", "aes_192_ofb", "aes_256_ofb"}

\* the keystream byte at position n (counted from 1)
KeyStream(h, n) ==
    (h.key.secret + h.key.salt + h.key.ctx + h.key.len
       + (IF h.key.label \in {"server_encrypt_key", "server_authenticate_key"}
          THEN 1 ELSE 0)
       + SeqSum(h.mix) + SeqSum(h.iv) + n) % ByteMod

\* the bytes cipher.update(buf) returns
UpdateOut(h, buf) ==
    [i \in 1..Len(buf) |->
        IF h.op = 1
        THEN (buf[i] + KeyStream(h, h.pos + i)) % ByteMod
        ELSE (buf[i] + ByteMod - KeyStream(h, h.pos + i)) % ByteMod]

\* the handle after cipher.update(buf)
UpdateNext(h, buf) == [h EXCEPT !.pos = h.pos + Len(buf)]

\* ---- HMAC accumulators ---------------------------------------------------
\* hmac.new(key, digestmod=hf) followed by update calls: the key, the hash
\* and all bytes fed so far
NoMac == [key |-> NoKey, hf |-> "", data |-> <<>>]

hmac_new(key, hf) == [key |-> key, hf |-> hf, data |-> <<>>]

\* a slip: each update starts the MAC afresh (a tag per message)
hmac_update_fresh(m, buf) == [m EXCEPT !.data = buf]

hmac_update(m, buf) == [m EXCEPT !.data = m.data \o buf]

\* A digest is the term it was computed from; flip = 0 for the digest
\* itself and i > 0 for it with byte i changed.
NoTag == [key |-> NoKey, hf |-> "", data |-> <<>>, flip |-> 0]

hmac_digest(m) == [key |-> m.key, hf |-> m.hf, data |-> m.data, flip |-> 0]

\* a slip: the comparison accepts every tag
compare_digest_any(a, b) == TRUE

compare_digest(a, b) == a = b

digest_size(hf) ==
    CASE hf = "md5" -> 16
      [] hf = "sha1" -> 20
      [] hf = "sha256" -> 32
      [] OTHER -> 0

\* ---- state ---------------------------------------------------------------
VARIABLES
    sess,      \* the session objects, by slot
    USED_IV,   \* defaultdict(sized_deque): key -> the IVs seen, oldest first
    sent,      \* history: per session, the successful encrypt calls
    rcvd,      \* history: per session, the decrypt calls and their outcome
    last,      \* history: the last call made
    ncalls,    \* the number of calls made
    frame      \* per session, the decrypt call in progress and its locals

vars == <<sess, USED_IV, sent, rcvd, last, ncalls, frame>>

\* no decrypt call in progress; pc "append": the call has passed the replay
\* check of a first decrypt in server mode and has not yet appended its IV;
\* rmac is the digest the call took on entry (AEncryptor)
NoFrame == [pc |-> "", buf |-> <<>>, mac |-> NoTag, rmac |-> NoTag]

\* a slot no constructor has run for; built is history: the secret, salt
\* and ctx the constructor was given
NoSess ==
    [st |-> "none", kind |-> "", method |-> "", servermode |-> FALSE,
     key |-> NoKey, key_len |-> 0, iv_len |-> 0, iv_sent |-> FALSE,
     cipher_iv |-> <<>>, cipher |-> NoCipher, decipher |-> None,
     encrypt_key |-> NoKey, auth_key |-> NoKey, decrypt_key |-> NoKey,
     de_auth_key |-> NoKey, enmac |-> NoMac, demac |-> NoMac,
     built |-> <<0, 0, 0>>]

\* the record of a call: err = "" when it returned; upd is the length of
\* the buffer handed to a cipher update, -1 when none was made; for a
\* constructor, method is the name it was given and derived and rand tell
\* whether a key derivation and random_string ran
Call(op, s, buf, mac, out, tag, err, upd) ==
    [op |-> op, s |-> s, buf |-> buf, mac |-> mac, out |-> out, tag |-> tag,
     err |-> err, upd |-> upd, method |-> "", derived |-> FALSE, rand |-> FALSE]

InitCall(s, method, err, derived, rand) ==
    [Call("init", s, <<>>, NoTag, <<>>, NoTag, err, -1)
        EXCEPT !.method = method, !.derived = derived, !.rand = rand]

\* random_string(n): the values the model draws.  They differ in their
\* first byte, and a session draws a value drawn before or the next new one.
IVs(n) ==
    LET drawn == {sess[t].cipher_iv[1] : t \in {u \in Sess : sess[u].st = "live"}}
    IN  {[i \in 1..n |-> IF i = 1 THEN b ELSE 0] :
            b \in {c \in Byte : c <= Cardinality(drawn)}}

\* the roles of the slots: the first session built is a client or a server,
\* the others are servers
Modes(s) == IF s = 1 THEN BOOLEAN ELSE {TRUE}

Passwords == {1}

Init ==
    /\ sess = [s \in Sess |-> NoSess]
    /\ USED_IV = <<>>
    /\ sent = [s \in Sess |-> <<>>]
    /\ rcvd = [s \in Sess |-> <<>>]
    /\ last = Call("", 0, <<>>, NoTag, <<>>, NoTag, "", -1)
    /\ ncalls = 0
    /\ frame = [s \in Sess |-> NoFrame]

\* a session that has encrypted or decrypted something
Used(t) == sent[t] # <<>> \/ rcvd[t] # <<>>

\* Constructors run for the slots in order, each once the session before it
\* has been used.  One run builds sessions of one class and one method, as
\* the connections of one proxy do: sessions of different classes share no
\* key, no cache entry and no frame.
NextSlot(s, kind, method) ==
    /\ ncalls < MaxCalls
    /\ sess[s].st = "none"
    /\ \A t \in Sess : t < s => sess[t].st = "live" /\ Used(t)
    /\ \A t \in Sess : sess[t].st = "live" =>
           sess[t].kind = kind /\ lower(method) = lower(sess[t].method)

\* a constructor that raised: no object results
Failed(s, method, err, derived, rand) ==
    /\ last' = InitCall(s, method, err, derived, rand)
    /\ ncalls' = ncalls + 1
    /\ UNCHANGED <<sess, USED_IV, sent, rcvd, frame>>

\* ---- Encryptor -----------------------------------------------------------
EncryptorObject(password, method, servermode, iv) ==
    LET lens == get_cipher_len(method)
        key == EVP_BytesToKey(password, lens[1])
    IN  [NoSess EXCEPT !.st = "live", !.kind = "Encryptor", !.method = method,
                       !.servermode = servermode, !.key_len = lens[1],
                       !.iv_len = lens[2], !.key = key, !.cipher_iv = iv,
                       !.built = <<password, 0, 0>>,
                       !.cipher = get_cipher(key, method, 1, iv)]

\* Encryptor(password, method, servermode)
EncryptorInit(s, password, method, servermode) ==
    /\ NextSlot(s, "Encryptor", method)
    /\ IF method = "table"
       THEN Failed(s, method, "TableNotSupported", FALSE, FALSE)
       ELSE IF get_cipher_len(method) = None
       THEN Failed(s, method, "TypeError", FALSE, FALSE)
       ELSE \E iv \in IVs(get_cipher_len(method)[2]) :
              LET o == EncryptorObject(password, method, servermode, iv)
              IN  IF ~KnownAlg(o.cipher.alg)
                  THEN Failed(s, method, "UnknownCipher", TRUE, TRUE)
                  ELSE /\ sess' = [sess EXCEPT ![s] = o]
                       /\ last' = InitCall(s, method, "", TRUE, TRUE)
                       /\ ncalls' = ncalls + 1
                       /\ UNCHANGED <<USED_IV, sent, rcvd, frame>>

\* the outcome of a method call: the object and the cache after it, the
\* value returned (ret, and tag for an AEncryptor's encrypt), the error
\* raised ("" for none) and the length handed to a cipher update (-1: none)
Outcome(self, used, ret, tag, err, upd) ==
    [self |-> self, used |-> used, ret |-> ret, tag |-> tag, err |-> err,
     upd |-> upd]

\* ---- USED_IV -------------------------------------------------------------
\* USED_IV[k]: reading a missing key creates its empty sized_deque
Touch(used, k) == IF k \in DOMAIN used THEN used ELSE (k :> <<>>) @@ used

\* x in d
InDeque(x, d) == \E i \in 1..Len(d) : d[i] = x

\* a slip: the deque has no maxlen
DequeAppend_unbounded(d, x) == Append(d, x)

\* d.append(x) on a deque of maxlen entries: a full deque drops its oldest
DequeAppend(d, x) == IF Len(d) >= maxlen THEN Append(Tail(d), x) ELSE Append(d, x)

\* ---- the first decrypt of a session ---------------------------------------
\* decipher_iv = buf[:self.iv_len]
PeerIV(buf, iv_len) == Take(buf, iv_len)

\* a slip: the IV prefix is left in the buffer
AfterIV_keep(buf, iv_len) == buf

\* buf = buf[self.iv_len:]
AfterIV(buf, iv_len) == Drop(buf, iv_len)

\* a slip: the update is made on whatever is left
NothingLeft_never(rest) == FALSE

\* len(buf) == 0 (Encryptor) and not buf (AEncryptor) after the IV is cut
\* off: no cipher update is made
NothingLeft(rest) == Len(rest) = 0

\* a slip: the cache is never consulted
Replayed_never(servermode, decipher_iv, d) == FALSE

\* if self.servermode: if decipher_iv in USED_IV[key]: raise
Replayed(servermode, decipher_iv, d) == servermode /\ InDeque(decipher_iv, d)

\* a slip: the IV is recorded in client mode too
Remember_always(servermode, used, key, decipher_iv) ==
    [Touch(used, key) EXCEPT ![key] = DequeAppend(@, decipher_iv)]

\* the cache after the replay check of a first decrypt that passed it
Remember(servermode, used, key, decipher_iv) ==
    IF servermode
    THEN [Touch(used, key) EXCEPT ![key] = DequeAppend(@, decipher_iv)]
    ELSE used

\* ---- Encryptor.encrypt / Encryptor.decrypt -------------------------------
\* a slip: the flag is not set, every encrypt sends the IV again
Encryptor_encrypt_resend(self, used, buf) ==
    IF Len(buf) = 0
    THEN Outcome(self, used, <<>>, NoTag, "EmptyBuffer", -1)
    ELSE Outcome([self EXCEPT !.cipher = UpdateNext(self.cipher, buf)], used,
                 self.cipher_iv \o UpdateOut(self.cipher, buf), NoTag, "",
                 Len(buf))

Encryptor_encrypt(self, used, buf) ==
    IF Len(buf) = 0
    THEN Outcome(self, used, <<>>, NoTag, "EmptyBuffer", -1)
    ELSE IF self.iv_sent
    THEN Outcome([self EXCEPT !.cipher = UpdateNext(self.cipher, buf)], used,
                 UpdateOut(self.cipher, buf), NoTag, "", Len(buf))
    ELSE Outcome([self EXCEPT !.iv_sent = TRUE,
                              !.cipher = UpdateNext(self.cipher, buf)], used,
                 self.cipher_iv \o UpdateOut(self.cipher, buf), NoTag, "",
                 Len(buf))

\* a slip: the decrypt cipher is created before the replay check
Encryptor_decrypt_early(self, used, buf) ==
    IF Len(buf) = 0
    THEN Outcome(self, used, <<>>, NoTag, "EmptyBuffer", -1)
    ELSE IF self.decipher = None
    THEN LET decipher_iv == PeerIV(buf, self.iv_len)
             seen == IF self.servermode THEN Touch(used, self.key) ELSE used
             h == get_cipher(self.key, self.method, 0, decipher_iv)
             rest == AfterIV(buf, self.iv_len)
         IN  IF self.servermode /\ Replayed(self.servermode, decipher_iv, seen[self.key])
             THEN Outcome([self EXCEPT !.decipher = <<h>>], seen, <<>>, NoTag,
                          "IVReplay", -1)
             ELSE LET used2 == Remember(self.servermode, used, self.key, decipher_iv)
                  IN  IF NothingLeft(rest)
                      THEN Outcome([self EXCEPT !.decipher = <<h>>], used2, rest,
                                   NoTag, "", -1)
                      ELSE Outcome([self EXCEPT !.decipher = <<UpdateNext(h, rest)>>],
                                   used2, UpdateOut(h, rest), NoTag, "", Len(rest))
    ELSE LET h == self.decipher[1]
         IN  Outcome([self EXCEPT !.decipher = <<UpdateNext(h, buf)>>], used,
                     UpdateOut(h, buf), NoTag, "", Len(buf))

Encryptor_decrypt(self, used, buf) ==
    IF Len(buf) = 0
    THEN Outcome(self, used, <<>>, NoTag, "EmptyBuffer", -1)
    ELSE IF self.decipher = None
    THEN LET decipher_iv == PeerIV(buf, self.iv_len)
             seen == IF self.servermode THEN Touch(used, self.key) ELSE used
             h == get_cipher(self.key, self.method, 0, decipher_iv)
             rest == AfterIV(buf, self.iv_len)
         IN  IF self.servermode /\ Replayed(self.servermode, decipher_iv, seen[self.key])
             THEN Outcome(self, seen, <<>>, NoTag, "IVReplay", -1)
             ELSE LET used2 == Remember(self.servermode, used, self.key, decipher_iv)
                  IN  IF NothingLeft(rest)
                      THEN Outcome([self EXCEPT !.decipher = <<h>>], used2, rest,
                                   NoTag, "", -1)
                      ELSE Outcome([self EXCEPT !.decipher = <<UpdateNext(h, rest)>>],
                                   used2, UpdateOut(h, rest), NoTag, "", Len(rest))
    ELSE LET h == self.decipher[1]
         IN  Outcome([self EXCEPT !.decipher = <<UpdateNext(h, buf)>>], used,
                     UpdateOut(h, buf), NoTag, "", Len(buf))

\* ---- AEncryptor ----------------------------------------------------------
\* a slip: the client takes the keys in the server's order
RoleKeys_same(k, servermode) == k

\* <<encrypt_key, auth_key, decrypt_key, de_auth_key>> out of hkdf's
\* <<sek, sak, cek, cak>>
RoleKeys(k, servermode) ==
    IF servermode THEN <<k[1], k[2], k[3], k[4]>> ELSE <<k[3], k[4], k[1], k[2]>>

AEncryptorObject(key, method, salt, ctx, servermode, iv) ==
    LET lens == get_cipher_len(method)
        k == RoleKeys(hkdf(key, salt, ctx, lens[1]), servermode)
        hfunc == key_len_to_hash(lens[1])
        encrypt_key == k[1]
        auth_key == k[2]
        decrypt_key == k[3]
        de_auth_key == k[4]
    IN  [NoSess EXCEPT !.st = "live", !.kind = "AEncryptor", !.method = method,
                       !.built = <<key, salt, ctx>>,
                       !.servermode = servermode, !.key_len = lens[1],
                       !.iv_len = lens[2], !.encrypt_key = encrypt_key,
                       !.auth_key = auth_key, !.decrypt_key = decrypt_key,
                       !.de_auth_key = de_auth_key, !.cipher_iv = iv,
                       !.cipher = get_cipher(encrypt_key, method, 1, iv),
                       !.enmac = hmac_new(auth_key, hfunc),
                       !.demac = hmac_new(de_auth_key, hfunc)]

\* AEncryptor(key, method, salt, ctx, servermode)
AEncryptorInit(s, key, method, salt, ctx, servermode) ==
    /\ NextSlot(s, "AEncryptor", method)
    /\ IF method \notin DOMAIN method_supported
       THEN Failed(s, method, "MethodNotSupported", FALSE, FALSE)
       ELSE \E iv \in IVs(get_cipher_len(method)[2]) :
              /\ sess' = [sess EXCEPT ![s] =
                            AEncryptorObject(key, method, salt, ctx, servermode, iv)]
              /\ last' = InitCall(s, method, "", TRUE, TRUE)
              /\ ncalls' = ncalls + 1
              /\ UNCHANGED <<USED_IV, sent, rcvd, frame>>

\* a slip: one MAC accumulator serves both directions
AEncryptor_encrypt_shared(self, used, buf) ==
    IF Len(buf) = 0
    THEN Outcome(self, used, <<>>, NoTag, "EmptyBuffer", -1)
    ELSE LET ct == IF self.iv_sent
                   THEN UpdateOut(self.cipher, buf)
                   ELSE self.cipher_iv \o UpdateOut(self.cipher, buf)
             enmac == hmac_update(self.enmac, ct)
         IN  Outcome([self EXCEPT !.iv_sent = TRUE,
                                  !.cipher = UpdateNext(self.cipher, buf),
                                  !.enmac = enmac,
                                  !.demac = hmac_update(self.demac, ct)],
                     used, ct, hmac_digest(enmac), "", Len(buf))

\* a slip: the tag is taken before the ciphertext is fed to the MAC
AEncryptor_encrypt_stale(self, used, buf) ==
    IF Len(buf) = 0
    THEN Outcome(self, used, <<>>, NoTag, "EmptyBuffer", -1)
    ELSE LET ct == IF self.iv_sent
                   THEN UpdateOut(self.cipher, buf)
                   ELSE self.cipher_iv \o UpdateOut(self.cipher, buf)
         IN  Outcome([self EXCEPT !.iv_sent = TRUE,
                                  !.cipher = UpdateNext(self.cipher, buf),
                                  !.enmac = hmac_update(self.enmac, ct)],
                     used, ct, hmac_digest(self.enmac), "", Len(buf))

AEncryptor_encrypt(self, used, buf) ==
    IF Len(buf) = 0
    THEN Outcome(self, used, <<>>, NoTag, "EmptyBuffer", -1)
    ELSE LET ct == IF self.iv_sent
                   THEN UpdateOut(self.cipher, buf)
                   ELSE self.cipher_iv \o UpdateOut(self.cipher, buf)
             enmac == hmac_update(self.enmac, ct)
         IN  Outcome([self EXCEPT !.iv_sent = TRUE,
                                  !.cipher = UpdateNext(self.cipher, buf),
                                  !.enmac = enmac],
                     used, ct, hmac_digest(enmac), "", Len(buf))

AEncryptor_decrypt(self, used, buf, mac) ==
    IF Len(buf) = 0
    THEN Outcome(self, used, <<>>, NoTag, "EmptyBuffer", -1)
    ELSE LET demac == hmac_update(self.demac, buf)
             rmac == hmac_digest(demac)
             first == self.decipher = None
             decipher_iv == PeerIV(buf, self.iv_len)
             seen == IF first /\ self.servermode
                     THEN Touch(used, self.decrypt_key) ELSE used
             used2 == IF first
                      THEN Remember(self.servermode, used, self.decrypt_key,
                                    decipher_iv)
                      ELSE used
             h == IF first
                  THEN get_cipher(self.decrypt_key, self.method, 0, decipher_iv)
                  ELSE self.decipher[1]
             rest == IF first THEN AfterIV(buf, self.iv_len) ELSE buf
             pt == IF NothingLeft(rest) THEN <<>> ELSE UpdateOut(h, rest)
             h2 == IF NothingLeft(rest) THEN h ELSE UpdateNext(h, rest)
             upd == IF NothingLeft(rest) THEN -1 ELSE Len(rest)
             self2 == [self EXCEPT !.demac = demac, !.decipher = <<h2>>]
         IN  IF first /\ self.servermode
                  /\ Replayed(self.servermode, decipher_iv, seen[self.decrypt_key])
             THEN Outcome([self EXCEPT !.demac = demac], seen, <<>>, NoTag,
                          "IVReplay", -1)
             ELSE IF compare_digest(rmac, mac)
             THEN Outcome(self2, used2, pt, NoTag, "", upd)
             ELSE Outcome(self2, used2, <<>>, NoTag, "MacVerification", upd)

\* ---- the calls made on the sessions --------------------------------------
Live(s, kind) == sess[s].st = "live" /\ sess[s].kind = kind

\* an encrypt call and what it returned
SentRec(pt, ct, tag) == [pt |-> pt, ct |-> ct, tag |-> tag]

\* the key a session's replay cache entry is filed under
CacheKey(self) == IF self.kind = "Encryptor" THEN self.key ELSE self.decrypt_key

\* buf is handed to the first decrypt of a server-mode session while the
\* replay cache of its key holds the first iv_len bytes of buf
SeenBefore(self, used, buf) ==
    /\ self.servermode /\ self.decipher = None /\ buf # <<>>
    /\ CacheKey(self) \in DOMAIN used
    /\ \E i \in DOMAIN used[CacheKey(self)] :
          used[CacheKey(self)][i] = SubSeq(buf, 1, IF Len(buf) < self.iv_len
                                                  THEN Len(buf) ELSE self.iv_len)

\* a decrypt call of a non-empty buffer and its outcome; seen tells whether
\* SeenBefore held when the call was made
RcvdRec(buf, mac, out, err, seen) ==
    [buf |-> buf, mac |-> mac, out |-> out, err |-> err, seen |-> seen]

\* the frames sessions of one kind have produced, with their tags
Wire(kind) ==
    UNION {{<<sent[t][i].ct, sent[t][i].tag>> : i \in 1..Len(sent[t])} :
              t \in {u \in Sess : sess[u].kind = kind}}

\* the positions at which the model changes a byte of a frame read by a
\* session with n bytes of IV: the first and the last byte, the last byte
\* of the IV and the byte after it
Positions(buf, n) == {i \in {1, n, n + 1, Len(buf)} : 1 <= i /\ i <= Len(buf)}

\* a frame with one byte of its ciphertext changed
TamperedBuf(f, n) ==
    {<<Mutate(f[1], i), f[2]>> : i \in Positions(f[1], n)}

\* a frame with one byte of its tag changed
TamperedTag(f) ==
    IF f[2] = NoTag THEN {}
    ELSE {<<f[1], [f[2] EXCEPT !.flip = i]>> : i \in {digest_size(f[2].hf)}}

\* the first n bytes of a longer frame
Pieces(f, n) == IF Len(f[1]) > n /\ n > 0 THEN {<<Take(f[1], n), f[2]>>} ELSE {}

\* the start of a frame cut one byte before the end of its IV, as a read
\* from a socket may return it.  It is handed to the sessions of rc4-md5,
\* where the source fixes what becomes of a short IV: create_rc4_md5 hashes
\* whatever bytes it is given into the RC4 key.
ShortPieces(f, self) ==
    IF self.method = "rc4-md5" /\ self.iv_len > 1 /\ Len(f[1]) >= self.iv_len
    THEN {<<Take(f[1], self.iv_len - 1), f[2]>>}
    ELSE {}

\* the decrypt calls made so far with something no encrypt returned
Forged ==
    {<<s, i>> \in Sess \X (1..MaxCalls) :
        /\ i <= Len(rcvd[s])
        /\ rcvd[s][i].buf # <<>>
        /\ <<rcvd[s][i].buf, rcvd[s][i].mac>> \notin Wire(sess[s].kind)}

\* what a caller may hand to the decrypt of session s: nothing, a frame a
\* peer produced and, once in a run, such a frame with one byte changed or
\* the first bytes of one
DecryptInputs(s) ==
    LET W == Wire(sess[s].kind)
    IN  {<<(<<>>), NoTag>>} \cup W
          \cup IF Forged = {}
               THEN UNION {TamperedBuf(f, sess[s].iv_len) \cup TamperedTag(f)
                             \cup Pieces(f, sess[s].iv_len)
                             \cup ShortPieces(f, sess[s]) : f \in W}
               ELSE {}

\* the effect of a call with outcome r on the state
Apply(s, op, buf, mac, r) ==
    /\ sess' = [sess EXCEPT ![s] = r.self]
    /\ USED_IV' = r.used
    /\ sent' = IF op = "encrypt" /\ r.err = ""
               THEN [sent EXCEPT ![s] = Append(@, SentRec(buf, r.ret, r.tag))]
               ELSE sent
    /\ rcvd' = IF op = "decrypt" /\ r.err # "EmptyBuffer"
               THEN [rcvd EXCEPT ![s] = Append(@, RcvdRec(buf, mac, r.ret, r.err,
                                           SeenBefore(sess[s], USED_IV, buf)))]
               ELSE rcvd
    /\ last' = Call(op, s, buf, mac, r.ret, r.tag, r.err, r.upd)
    /\ ncalls' = ncalls + 1
    /\ UNCHANGED frame

EncryptorEncrypt(s, buf) ==
    /\ Live(s, "Encryptor")
    /\ ncalls < MaxCalls
    /\ Apply(s, "encrypt", buf, NoTag, Encryptor_encrypt(sess[s], USED_IV, buf))

EncryptorDecrypt(s, buf) ==
    /\ Live(s, "Encryptor")
    /\ ncalls < MaxCalls
    /\ Apply(s, "decrypt", buf, NoTag, Encryptor_decrypt(sess[s], USED_IV, buf))

AEncryptorEncrypt(s, buf) ==
    /\ Live(s, "AEncryptor")
    /\ ncalls < MaxCalls
    /\ Apply(s, "encrypt", buf, NoTag, AEncryptor_encrypt(sess[s], USED_IV, buf))

AEncryptorDecrypt(s, buf, mac) ==
    /\ Live(s, "AEncryptor")
    /\ ncalls < MaxCalls
    /\ Apply(s, "decrypt", buf, mac, AEncryptor_decrypt(sess[s], USED_IV, buf, mac))

\* the buffers handed to encrypt
EncryptInputs == Chunks \cup {<<>>}

Next ==
    \/ \E s \in Sess, pw \in Passwords, m \in MethodNames : \E sm \in Modes(s) :
          EncryptorInit(s, pw, m, sm)
    \/ \E s \in Sess, buf \in EncryptInputs : EncryptorEncrypt(s, buf)
    \/ \E s \in Sess : \E f \in DecryptInputs(s) : EncryptorDecrypt(s, f[1])
    \/ \E s \in Sess, k \in Passwords, m \in MethodNames : \E sm \in Modes(s) :
          AEncryptorInit(s, k, m, 0, 0, sm)
    \/ \E s \in Sess, buf \in EncryptInputs : AEncryptorEncrypt(s, buf)
    \/ \E s \in Sess : \E f \in DecryptInputs(s) : AEncryptorDecrypt(s, f[1], f[2])

Spec == Init /\ [][Next]_vars

\* ---- a server and its replay cache ------------------------------------------
\* A server holds MaxCalls connections: server-mode Encryptors of one
\* password and method.  Each is handed a first frame, an IV followed by one
\* byte; the connections are served in the order of their slots, and the
\* one served last may be handed another frame when its frame was refused.

\* the IVs of the first frames received so far
SeenIVs ==
    UNION {{PeerIV(rcvd[s][i].buf, sess[s].iv_len) : i \in 1..Len(rcvd[s])} :
              s \in Sess}

\* the c-th IV
NthIV(c, n) ==
    [i \in 1..n |-> IF i = 1 THEN c % ByteMod
                    ELSE IF i = 2 THEN c \div ByteMod ELSE 0]

\* the first frames a peer may send: one with an IV sent before or with the
\* next new one
FirstFrames(n) ==
    {NthIV(c, n) \o <<1>> : c \in 0..Cardinality(SeenIVs)}

CacheInit ==
    /\ sess = [s \in Sess |->
                 EncryptorObject(1, "rc4-md5", TRUE, NthIV(0, get_cipher_len("rc4-md5")[2]))]
    /\ USED_IV = <<>>
    /\ sent = [s \in Sess |-> <<>>]
    /\ rcvd = [s \in Sess |-> <<>>]
    /\ last = Call("", 0, <<>>, NoTag, <<>>, NoTag, "", -1)
    /\ ncalls = 0
    /\ frame = [s \in Sess |-> NoFrame]

\* the first decrypt of connection s
FirstDecrypt(s, buf) ==
    /\ sess[s].decipher = None
    /\ \A t \in Sess : (t < s => rcvd[t] # <<>>) /\ (t > s => rcvd[t] = <<>>)
    /\ EncryptorDecrypt(s, buf)

CacheNext ==
    \E s \in Sess : \E buf \in FirstFrames(sess[s].iv_len) : FirstDecrypt(s, buf)

SpecCache == CacheInit /\ [][CacheNext]_vars

\* ---- decrypt calls of several threads -------------------------------------
\* Each connection is served by its own thread.  The first decrypt of a
\* server-mode session tests decipher_iv in USED_IV[key] in one statement
\* and appends it in another, without a lock: a thread may be suspended
\* between the two.  Everything else a call does touches its own session
\* only and is taken as one step.

\* Encryptor.decrypt from USED_IV[self.key].append(decipher_iv) on
Encryptor_decrypt_tail(self, used, buf) ==
    LET decipher_iv == PeerIV(buf, self.iv_len)
        used2 == Remember(self.servermode, used, self.key, decipher_iv)
        h == get_cipher(self.key, self.method, 0, decipher_iv)
        rest == AfterIV(buf, self.iv_len)
    IN  IF NothingLeft(rest)
        THEN Outcome([self EXCEPT !.decipher = <<h>>], used2, rest, NoTag, "", -1)
        ELSE Outcome([self EXCEPT !.decipher = <<UpdateNext(h, rest)>>],
                     used2, UpdateOut(h, rest), NoTag, "", Len(rest))

\* AEncryptor.decrypt from USED_IV[self.decrypt_key].append(decipher_iv) on
AEncryptor_decrypt_tail(self, used, buf, mac, rmac) ==
    LET decipher_iv == PeerIV(buf, self.iv_len)
        used2 == Remember(self.servermode, used, self.decrypt_key, decipher_iv)
        h == get_cipher(self.decrypt_key, self.method, 0, decipher_iv)
        rest == AfterIV(buf, self.iv_len)
        pt == IF NothingLeft(rest) THEN <<>> ELSE UpdateOut(h, rest)
        h2 == IF NothingLeft(rest) THEN h ELSE UpdateNext(h, rest)
        upd == IF NothingLeft(rest) THEN -1 ELSE Len(rest)
        self2 == [self EXCEPT !.decipher = <<h2>>]
    IN  IF compare_digest(rmac, mac)
        THEN Outcome(self2, used2, pt, NoTag, "", upd)
        ELSE Outcome(self2, used2, <<>>, NoTag, "MacVerification", upd)

\* the call decrypt(buf, mac) of s is a first decrypt in server mode that
\* passes the replay check
PassesCheck(s, buf) ==
    /\ sess[s].servermode /\ sess[s].decipher = None /\ buf # <<>>
    /\ ~Replayed(sess[s].servermode, PeerIV(buf, sess[s].iv_len),
                 Touch(USED_IV, CacheKey(sess[s]))[CacheKey(sess[s])])

\* a thread enters decrypt(buf, mac) of s and runs it up to the replay
\* check; a call that does not pass one (or raises there) runs to its end
DecryptCheck(s, buf, mac) ==
    /\ sess[s].st = "live" /\ frame[s] = NoFrame
    /\ ncalls < MaxCalls
    /\ IF PassesCheck(s, buf)
       THEN LET demac == IF sess[s].kind = "AEncryptor"
                         THEN hmac_update(sess[s].demac, buf)
                         ELSE sess[s].demac
            IN  /\ sess' = [sess EXCEPT ![s].demac = demac]
                /\ USED_IV' = Touch(USED_IV, CacheKey(sess[s]))
                /\ frame' = [frame EXCEPT ![s] =
                               [pc |-> "append", buf |-> buf, mac |-> mac,
                                rmac |-> IF sess[s].kind = "AEncryptor"
                                         THEN hmac_digest(demac) ELSE NoTag]]
                /\ ncalls' = ncalls + 1
                /\ UNCHANGED <<sent, rcvd, last>>
       ELSE Apply(s, "decrypt", buf, mac,
                  IF sess[s].kind = "Encryptor"
                  THEN Encryptor_decrypt(sess[s], USED_IV, buf)
                  ELSE AEncryptor_decrypt(sess[s], USED_IV, buf, mac))

\* the thread in decrypt of s appends the IV and runs the call to its end
DecryptAppend(s) ==
    /\ frame[s].pc = "append"
    /\ LET f == frame[s]
           r == IF sess[s].kind = "Encryptor"
                THEN Encryptor_decrypt_tail(sess[s], USED_IV, f.buf)
                ELSE AEncryptor_decrypt_tail(sess[s], USED_IV, f.buf, f.mac, f.rmac)
       IN  /\ sess' = [sess EXCEPT ![s] = r.self]
           /\ USED_IV' = r.used
           /\ rcvd' = [rcvd EXCEPT ![s] =
                         Append(@, RcvdRec(f.buf, f.mac, r.ret, r.err, FALSE))]
           /\ last' = Call("decrypt", s, f.buf, f.mac, r.ret, r.tag, r.err, r.upd)
           /\ frame' = [frame EXCEPT ![s] = NoFrame]
           /\ UNCHANGED <<sent, ncalls>>

ConcNext ==
    \/ \E s \in Sess, pw \in Passwords, m \in MethodNames : \E sm \in Modes(s) :
          EncryptorInit(s, pw, m, sm)
    \/ \E s \in Sess, buf \in EncryptInputs : EncryptorEncrypt(s, buf)
    \/ \E s \in Sess, k \in Passwords, m \in MethodNames : \E sm \in Modes(s) :
          AEncryptorInit(s, k, m, 0, 0, sm)
    \/ \E s \in Sess, buf \in EncryptInputs : AEncryptorEncrypt(s, buf)
    \/ \E s \in Sess : \E f \in DecryptInputs(s) : DecryptCheck(s, f[1], f[2])
    \/ \E s \in Sess : DecryptAppend(s)

SpecConc == Init /\ [][ConcNext]_vars

\* ---- the claims ----------------------------------------------------------
Stream == {s \in Sess : Live(s, "Encryptor")}
Auth == {s \in Sess : Live(s, "AEncryptor")}

\* r has been handed, one per decrypt call and in order, the first frames s
\* produced, and nothing else
InOrder(s, r) ==
    /\ Len(rcvd[r]) <= Len(sent[s])
    /\ \A i \in 1..Len(rcvd[r]) :
          rcvd[r][i].buf = sent[s][i].ct /\ rcvd[r][i].mac = sent[s][i].tag

\* every decrypt r made returned the plaintext of the frame of s it was given
Recovered(s, r) ==
    \A i \in 1..Len(rcvd[r]) :
        rcvd[r][i].err = "" /\ rcvd[r][i].out = sent[s][i].pt

\* the first decrypt of r met an IV its replay cache held
FirstSeen(r) == rcvd[r] # <<>> /\ rcvd[r][1].seen

\* C1 as stated: a receiver Encryptor of the same key and method that is
\* given the sender's frames in order, one per call, returns the plaintext
\* chunks.
C1_AnyReceiver ==
    \A s \in Stream, r \in Stream :
        (sess[s].key = sess[r].key /\ sess[s].method = sess[r].method
           /\ InOrder(s, r)) => Recovered(s, r)

\* C1, amended: a receiver Encryptor of the same key and method that is
\* given the sender's frames in order, one per call, returns the plaintext
\* chunks, unless it is a server-mode receiver whose replay cache already
\* held the sender's IV at its first decrypt.
C1_RoundTrip ==
    \A s \in Stream, r \in Stream :
        (sess[s].key = sess[r].key /\ sess[s].method = sess[r].method
           /\ InOrder(s, r) /\ ~FirstSeen(r)) => Recovered(s, r)

\* two chunks went from one session to another, a server
C1_Witness ==
    \E s \in Stream, r \in Stream :
        /\ s # r /\ sess[r].servermode /\ sess[s].key = sess[r].key
        /\ Len(rcvd[r]) = 2 /\ InOrder(s, r) /\ ~FirstSeen(r)
        /\ rcvd[r][2].out = sent[s][2].pt

\* the constructor arguments and the method of two sessions agree
SameSetup(s, r) ==
    sess[s].built = sess[r].built /\ sess[s].method = sess[r].method

\* C2: between a client and a server AEncryptor of the same (secret, method,
\* salt, ctx), the (ciphertext, tag) pairs of one side handed unmodified and
\* in order to the decrypt of the other side all return the plaintext chunk
\* and none raises, the sender's IV not being in the replay cache already.
C2_AuthRoundTrip ==
    \A s \in Auth, r \in Auth :
        (SameSetup(s, r) /\ sess[s].servermode # sess[r].servermode
           /\ InOrder(s, r) /\ ~FirstSeen(r)) => Recovered(s, r)

\* two pairs went from a client to a server and were accepted
C2_Witness ==
    \E s \in Auth, r \in Auth :
        /\ SameSetup(s, r) /\ ~sess[s].servermode /\ sess[r].servermode
        /\ Len(rcvd[r]) = 2 /\ InOrder(s, r) /\ ~FirstSeen(r)
        /\ rcvd[r][2].err = "" /\ rcvd[r][2].out = sent[s][2].pt

\* the i-th decrypt of r was handed a pair some AEncryptor produced, with
\* one byte of the ciphertext or of the tag changed
Tampered(r, i) ==
    \E s \in Auth : \E j \in 1..Len(sent[s]) :
        \/ /\ rcvd[r][i].mac = sent[s][j].tag
           /\ Len(rcvd[r][i].buf) = Len(sent[s][j].ct)
           /\ Cardinality({k \in 1..Len(sent[s][j].ct) :
                             rcvd[r][i].buf[k] # sent[s][j].ct[k]}) = 1
        \/ /\ rcvd[r][i].buf = sent[s][j].ct
           /\ rcvd[r][i].mac # sent[s][j].tag
           /\ [rcvd[r][i].mac EXCEPT !.flip = 0] = sent[s][j].tag

\* C3 as stated: a pair with one byte of its ciphertext or tag changed makes
\* decrypt raise the MAC verification error and return no plaintext.
C3_AlwaysMacError ==
    \A r \in Auth : \A i \in 1..Len(rcvd[r]) :
        Tampered(r, i) =>
            rcvd[r][i].err = "MacVerification" /\ rcvd[r][i].out = <<>>

\* C3, amended: a pair with one byte of its ciphertext or tag changed makes
\* decrypt raise and return no plaintext; the error is the MAC verification
\* error, except in the first decrypt of a server-mode session whose replay
\* cache already holds the IV prefix of the pair, which raises the IV-replay
\* error.
C3_TagIntegrity ==
    \A r \in Auth : \A i \in 1..Len(rcvd[r]) :
        Tampered(r, i) =>
            /\ rcvd[r][i].out = <<>>
            /\ rcvd[r][i].err = IF rcvd[r][i].seen THEN "IVReplay"
                                                   ELSE "MacVerification"

\* the peer of the sender was handed a changed pair and raised the MAC
\* verification error
C3_Witness ==
    \E r \in Auth : \E i \in 1..Len(rcvd[r]) :
        /\ Tampered(r, i) /\ rcvd[r][i].err = "MacVerification"
        /\ \E s \in Auth : SameSetup(s, r) /\ sess[s].servermode # sess[r].servermode
              /\ sent[s] # <<>> /\ sent[s][1].tag = rcvd[r][i].mac

\* the first decrypt of r was handed an IV-prefixed pair of a peer client and
\* accepted it
FirstAccepted(r) ==
    /\ sess[r].servermode /\ rcvd[r] # <<>> /\ rcvd[r][1].err = ""
    /\ \E s \in Auth : sent[s] # <<>> /\ rcvd[r][1].buf = sent[s][1].ct
                           /\ rcvd[r][1].mac = sent[s][1].tag

\* the i-th decrypt of q was handed the pair of the first decrypt of r
SameFrame(q, i, r) ==
    rcvd[q][i].buf = rcvd[r][1].buf /\ rcvd[q][i].mac = rcvd[r][1].mac

\* C4 as stated: a server-mode AEncryptor that is fed the same IV-prefixed
\* pair twice accepts the first call and raises the IV-replay error on the
\* second.
C4_SecondCallReplay ==
    \A r \in Auth :
        (FirstAccepted(r) /\ Len(rcvd[r]) >= 2 /\ SameFrame(r, 2, r))
            => rcvd[r][2].err = "IVReplay"

\* C4, amended: when a server-mode AEncryptor has accepted an IV-prefixed
\* pair, the same pair is rejected when fed again: by the same session with
\* the MAC verification error (its replay check is made in the first decrypt
\* only), and by the first decrypt of another server-mode session of the same
\* decrypt key, the IV being in the replay cache, with the IV-replay error.
C4_ReplayRejected ==
    \A r \in Auth :
        FirstAccepted(r) =>
            /\ \A i \in 2..Len(rcvd[r]) :
                  SameFrame(r, i, r) =>
                      rcvd[r][i].err = "MacVerification" /\ rcvd[r][i].out = <<>>
            /\ \A q \in Auth \ {r} :
                  (sess[q].servermode /\ sess[q].decrypt_key = sess[r].decrypt_key
                     /\ rcvd[q] # <<>> /\ SameFrame(q, 1, r) /\ rcvd[q][1].seen)
                      => rcvd[q][1].err = "IVReplay" /\ rcvd[q][1].out = <<>>

\* a pair one server session accepted was replayed to a second one, which
\* raised the IV-replay error
C4_Witness ==
    \E r \in Auth, q \in Auth :
        /\ r # q /\ FirstAccepted(r) /\ sess[q].servermode
        /\ sess[q].decrypt_key = sess[r].decrypt_key
        /\ rcvd[q] # <<>> /\ SameFrame(q, 1, r) /\ rcvd[q][1].err = "IVReplay"

\* the call just made is a decrypt by session s
Decrypted(s) == last.op = "decrypt" /\ last.s = s

\* C5: when the first decrypt of a server-mode session (Encryptor or
\* AEncryptor) carries an IV prefix that the replay cache of its decryption
\* key holds, the call raises the IV-replay error, the decrypt cipher stays
\* uninitialised, no plaintext is produced and the cache is unchanged.
C5_ReplayInitialisesNothing ==
    [][\A s \in Sess :
          (ncalls' # ncalls /\ Decrypted(s)'
             /\ SeenBefore(sess[s], USED_IV, last'.buf))
          => /\ last'.err = "IVReplay"
             /\ last'.out = <<>>
             /\ sess'[s].decipher = None
             /\ USED_IV' = USED_IV]_vars

\* a server session raised the IV-replay error in its first decrypt
C5_Witness ==
    /\ last.op = "decrypt" /\ last.err = "IVReplay"
    /\ sess[last.s].servermode /\ sess[last.s].decipher = None
    /\ \E i \in DOMAIN USED_IV[CacheKey(sess[last.s])] :
          USED_IV[CacheKey(sess[last.s])][i] = Take(last.buf, sess[last.s].iv_len)

\* the bytes handed to the decrypt calls of r before the i-th
RECURSIVE Fed(_, _)
Fed(r, i) == IF i <= 1 THEN <<>> ELSE Fed(r, i - 1) \o rcvd[r][i - 1].buf

\* the i-th decrypt of r was handed the second pair s produced, r not
\* having been handed the first
SecondOnly(s, r, i) ==
    /\ Len(sent[s]) >= 2
    /\ rcvd[r][i].buf = sent[s][2].ct /\ rcvd[r][i].mac = sent[s][2].tag
    /\ Fed(r, i) # sent[s][1].ct

SendKey(s) ==
    IF sess[s].kind = "Encryptor" THEN sess[s].key ELSE sess[s].encrypt_key

\* the number of plaintext bytes s encrypted before its i-th encrypt
RECURSIVE SentBefore(_, _)
SentBefore(s, i) ==
    IF i <= 1 THEN 0 ELSE SentBefore(s, i - 1) + Len(sent[s][i - 1].pt)

\* what the encrypt cipher of s, created at construction from its key and
\* its IV, returns for the i-th plaintext
CipherUpdate(s, i) ==
    UpdateOut([get_cipher(SendKey(s), sess[s].method, 1, sess[s].cipher_iv)
                  EXCEPT !.pos = SentBefore(s, i)], sent[s][i].pt)

\* C7: in both classes the IV of a session never changes after
\* construction; the first successful encrypt returns the IV followed by
\* cipher_update(buf) and sets iv_sent, every later successful encrypt
\* returns cipher_update(buf) alone, rejected empty-buffer calls change
\* nothing, and iv_sent never goes back to False.
C7_IVSentOnce ==
    /\ [](\A s \in Stream \cup Auth :
             /\ sess[s].iv_sent = (sent[s] # <<>>)
             /\ \A i \in 1..Len(sent[s]) :
                   sent[s][i].ct = (IF i = 1 THEN sess[s].cipher_iv ELSE <<>>)
                                      \o CipherUpdate(s, i))
    /\ [][\A s \in Stream \cup Auth :
             /\ sess'[s].cipher_iv = sess[s].cipher_iv
             /\ sess[s].iv_sent => sess'[s].iv_sent]_vars

\* a session made its second successful encrypt, which returned as many
\* bytes as it was given
C7_Witness ==
    /\ last.op = "encrypt" /\ last.err = ""
    /\ Len(sent[last.s]) = 2 /\ last.out = sent[last.s][2].ct
    /\ Len(last.out) = Len(last.buf)
    /\ Len(sent[last.s][1].ct) = sess[last.s].iv_len + Len(sent[last.s][1].pt)
    /\ sess[last.s].iv_sent

\* C8 as stated: a constructor of either class given a method name without
\* a registry entry fails with the unsupported-method error, before a key
\* is derived and before an IV is drawn, and leaves no session.
C8_UnknownMethodRejected ==
    (last.op = "init" /\ get_cipher_len(last.method) = None)
    => /\ last.err \in {"MethodNotSupported", "TableNotSupported"}
       /\ ~last.derived /\ ~last.rand
       /\ sess[last.s].st = "none"

\* C9: encrypt and decrypt of either class given an empty buffer raise the
\* empty-buffer error and leave the session and the replay cache as they
\* were; and no call makes a cipher update on zero bytes, a first decrypt
\* of exactly iv_len bytes included.
C9_EmptyNeverReachesCipher ==
    [][(ncalls' # ncalls /\ last'.op \in {"encrypt", "decrypt"})
       => /\ last'.upd # 0
          /\ last'.buf = <<>> =>
                /\ last'.err = "EmptyBuffer" /\ last'.upd = -1
                /\ UNCHANGED <<sess, USED_IV, sent, rcvd>>]_vars

\* the first decrypt of a session was handed exactly iv_len bytes: it
\* created the decrypt cipher and made no update
C9_Witness ==
    /\ last.op = "decrypt" /\ last.err = "" /\ last.out = <<>>
    /\ Len(rcvd[last.s]) = 1
    /\ Len(last.buf) = sess[last.s].iv_len
    /\ sess[last.s].decipher # None /\ sess[last.s].decipher[1].pos = 0
    /\ last.upd = -1

\* C10: a server-mode and a client-mode AEncryptor built from the same
\* secret, salt, ctx and method hold mirrored keys: each one's encrypt key
\* and send MAC key are the other's decrypt key and receive MAC key; and
\* in every AEncryptor the keys of the two directions are HKDF outputs of
\* different labels.
C10_MirroredRoles ==
    /\ \A s \in Auth, r \in Auth :
          (sess[s].servermode /\ ~sess[r].servermode /\ SameSetup(s, r))
          => /\ sess[s].encrypt_key = sess[r].decrypt_key
             /\ sess[s].auth_key = sess[r].de_auth_key
             /\ sess[s].enmac.key = sess[r].demac.key
             /\ sess[r].encrypt_key = sess[s].decrypt_key
             /\ sess[r].auth_key = sess[s].de_auth_key
             /\ sess[r].enmac.key = sess[s].demac.key
    /\ \A s \in Auth :
          /\ sess[s].encrypt_key.label # sess[s].decrypt_key.label
          /\ sess[s].auth_key.label # sess[s].de_auth_key.label
          /\ sess[s].encrypt_key.label =
                (IF sess[s].servermode THEN "server_encrypt_key"
                                       ELSE "client_encrypt_key")
          /\ sess[s].auth_key.label =
                (IF sess[s].servermode THEN "server_authenticate_key"
                                       ELSE "client_authenticate_key")

\* a client and a server of the same setup exist
C10_Witness ==
    \E s \in Auth, r \in Auth :
        /\ sess[s].servermode /\ ~sess[r].servermode /\ SameSetup(s, r)
        /\ sess[s].encrypt_key = sess[r].decrypt_key
        /\ sess[s].encrypt_key # sess[s].decrypt_key

\* C12 as stated: every IV the replay cache holds under the decrypt key of
\* a server-mode AEncryptor came from a first frame whose decrypt passed
\* the MAC verification and returned plaintext; a first frame whose tag
\* fails adds none.
C12_OnlyAcceptedIVs ==
    \A k \in {j \in DOMAIN USED_IV : j.kdf = "hkdf"} :
        \A i \in 1..Len(USED_IV[k]) :
            \E r \in Auth :
                /\ sess[r].servermode /\ sess[r].decrypt_key = k
                /\ rcvd[r] # <<>> /\ rcvd[r][1].err = ""
                /\ PeerIV(rcvd[r][1].buf, sess[r].iv_len) = USED_IV[k][i]

\* the ciphertext bytes s returned by its encrypt calls before the j-th
RECURSIVE SentStream(_, _)
SentStream(s, j) ==
    IF j <= 1 THEN <<>> ELSE SentStream(s, j - 1) \o sent[s][j - 1].ct

\* a decrypt of r before its i-th raised the MAC verification error
MacFailedBefore(r, i) ==
    \E j \in 1..(i - 1) : rcvd[r][j].err = "MacVerification"

\* the i-th decrypt of r was handed the j-th pair its peer s produced
PeerPair(s, j, r, i) ==
    /\ SameSetup(s, r) /\ sess[s].servermode # sess[r].servermode
    /\ j <= Len(sent[s])
    /\ rcvd[r][i].buf = sent[s][j].ct /\ rcvd[r][i].mac = sent[s][j].tag

C16_CaseInsensitive ==
    (last.op = "init" /\ last.err = "MethodNotSupported")
    => get_cipher_len(last.method) = None

\* self with its decrypt direction as the constructor left it
FreshDecrypt(self) ==
    [self EXCEPT !.decipher = None,
                 !.demac = hmac_new(self.de_auth_key, self.demac.hf)]

\* self with its encrypt direction as the constructor left it
FreshEncrypt(self) ==
    [self EXCEPT !.iv_sent = FALSE,
                 !.cipher = [self.cipher EXCEPT !.pos = 0],
                 !.enmac = hmac_new(self.auth_key, self.enmac.hf)]

\* what encrypt(buf) and decrypt(buf, mac) of self return or raise
EncryptResult(self, buf) ==
    LET r == IF self.kind = "Encryptor"
             THEN Encryptor_encrypt(self, USED_IV, buf)
             ELSE AEncryptor_encrypt(self, USED_IV, buf)
    IN  <<r.ret, r.tag, r.err>>

DecryptResult(self, buf, mac) ==
    LET r == IF self.kind = "Encryptor"
             THEN Encryptor_decrypt(self, USED_IV, buf)
             ELSE AEncryptor_decrypt(self, USED_IV, buf, mac)
    IN  <<r.ret, r.err>>

\* C17: in both classes an encrypt call leaves the decrypt cipher, the
\* receive MAC and the replay cache as they were, and a decrypt call leaves
\* iv_sent, the IV, the encrypt cipher and the send MAC as they were; each
\* call returns what it would return with the other direction untouched
\* since construction.
C17_DirectionsIndependent ==
    [][\A s \in Sess :
          /\ (ncalls' # ncalls /\ last'.op = "encrypt" /\ last'.s = s)
             => /\ sess'[s].decipher = sess[s].decipher
                /\ sess'[s].demac = sess[s].demac
                /\ USED_IV' = USED_IV
                /\ <<last'.out, last'.tag, last'.err>>
                      = EncryptResult(FreshDecrypt(sess[s]), last'.buf)
          /\ (ncalls' # ncalls /\ last'.op = "decrypt" /\ last'.s = s)
             => /\ sess'[s].iv_sent = sess[s].iv_sent
                /\ sess'[s].cipher_iv = sess[s].cipher_iv
                /\ sess'[s].cipher = sess[s].cipher
                /\ sess'[s].enmac = sess[s].enmac
                /\ <<last'.out, last'.err>>
                      = DecryptResult(FreshEncrypt(sess[s]), last'.buf, last'.mac)]_vars

\* an AEncryptor that had verified and decrypted a frame made an encrypt
C17_Witness ==
    /\ last.op = "encrypt" /\ last.err = ""
    /\ sess[last.s].kind = "AEncryptor"
    /\ sess[last.s].decipher # None
    /\ rcvd[last.s] # <<>> /\ rcvd[last.s][1].err = ""
    /\ sess[last.s].demac.data = rcvd[last.s][1].buf

\* what decrypt(buf, mac) of self returns or raises when the replay cache
\* is empty
DecryptResultNoCache(self, buf, mac) ==
    LET r == IF self.kind = "Encryptor"
             THEN Encryptor_decrypt(self, <<>>, buf)
             ELSE AEncryptor_decrypt(self, <<>>, buf, mac)
    IN  <<r.ret, r.err>>

\* C18: no encrypt or decrypt call of a session built with servermode
\* false (of either class) creates or changes a replay cache entry or
\* depends on one: it never raises the IV-replay error and returns what it
\* would return with an empty cache, so a first frame whose IV is cached is
\* accepted.
C18_ClientIgnoresCache ==
    [][\A s \in Sess :
          (ncalls' # ncalls /\ last'.op \in {"encrypt", "decrypt"}
             /\ last'.s = s /\ ~sess[s].servermode)
          => /\ USED_IV' = USED_IV
             /\ last'.err # "IVReplay"
             /\ last'.op = "decrypt" =>
                   <<last'.out, last'.err>>
                      = DecryptResultNoCache(sess[s], last'.buf, last'.mac)]_vars

\* the first decrypt of a client-mode session returned plaintext for a
\* frame whose IV the replay cache holds under the session's key
C18_Witness ==
    /\ last.op = "decrypt" /\ last.err = "" /\ last.out # <<>>
    /\ ~sess[last.s].servermode /\ Len(rcvd[last.s]) = 1
    /\ CacheKey(sess[last.s]) \in DOMAIN USED_IV
    /\ InDeque(PeerIV(last.buf, sess[last.s].iv_len),
               USED_IV[CacheKey(sess[last.s])])

\* a is the beginning of b
IsPrefix(a, b) == Len(a) <= Len(b) /\ SubSeq(b, 1, Len(a)) = a

\* the IV a cipher handle was created with
HandleIV(h) == IF h.alg = "rc4" THEN h.mix ELSE h.iv

\* C13 as stated (its first part): however the sender's output stream is
\* cut into non-empty decrypt buffers, a first buffer shorter than iv_len
\* included, the receiving Encryptor creates its decrypt cipher with
\* exactly the first iv_len bytes of the stream, the sender's IV.
C13_PeerIVWhole ==
    \A s \in Stream, r \in Stream :
        ( /\ sess[s].key = sess[r].key /\ sess[s].method = sess[r].method
          /\ rcvd[r] # <<>> /\ sess[r].decipher # None
          /\ IsPrefix(Fed(r, Len(rcvd[r]) + 1), SentStream(s, Len(sent[s]) + 1)) )
        => HandleIV(sess[r].decipher[1]) = sess[s].cipher_iv

\* the last n entries of q
LastN(q, n) == IF Len(q) <= n THEN q ELSE SubSeq(q, Len(q) - n + 1, Len(q))

\* connection s passed the replay check: its last decrypt returned
Admitted(s) == rcvd[s] # <<>> /\ rcvd[s][Len(rcvd[s])].err = ""

\* the IVs accepted under key k by the connections 1..n, oldest first (the
\* connections are served in the order of their slots, and each accepts
\* once)
RECURSIVE AcceptedBy(_, _)
AcceptedBy(k, n) ==
    IF n = 0 THEN <<>>
    ELSE AcceptedBy(k, n - 1) \o
           (IF sess[n].key = k /\ Admitted(n)
            THEN <<PeerIV(rcvd[n][Len(rcvd[n])].buf, sess[n].iv_len)>>
            ELSE <<>>)

C11_AtMostOnePasses ==
    \A s \in Sess, r \in Sess :
        ( /\ s # r /\ frame[s].pc = "append" /\ frame[r].pc = "append"
          /\ CacheKey(sess[s]) = CacheKey(sess[r]) )
        => PeerIV(frame[s].buf, sess[s].iv_len) # PeerIV(frame[r].buf, sess[r].iv_len)

====
